---- MODULE Spec2Model ----
(***************************************************************************)
(* Meeting summarizer: the /generate-summary and /send-summary route       *)
(* handlers of the Express server and the summary editor of the client     *)
(* page (src/frontend/pages/index.js).  The server is modelled in the four *)
(* copies the repository holds:                                            *)
(*   "part_000"  src/unnamed/part_000                                      *)
(*   "part_002"  src/unnamed/part_002                                      *)
(*   "part_001"  src/unnamed/part_001 lines 1-143 (and 295-441)            *)
(*   "server.js" src/server.js as committed by 67df06b (the lines outside  *)
(*               the HEAD side of the conflict), same handlers as          *)
(*               src/unnamed/part_001 lines 145-293                        *)
(*                                                                         *)
(* JavaScript values are records [t, s, a, o]: t is the type tag, s the    *)
(* text of a string (or the numeral of a number), a the elements of an     *)
(* array, o the properties of an object.  A text is a sequence of tokens:  *)
(* the separators "\n", "\r", "\t", " ", ".", "?", "!", the code fence       *)
(* of three backquotes ("FENCE"),                                          *)
(* and words: non-empty runs of characters with no separator at either end *)
(* and nothing inside that the handlers split on.                          *)
(***************************************************************************)
EXTENDS Integers, Sequences, FiniteSets, TLC

VARIABLES
    variant,    \* which copy of the server is running
    mockEnv,    \* process.env.USE_MOCK when the server starts
    USE_MOCK,   \* the mock-mode flag, evaluated at startup
    groq,       \* TRUE when the Groq client was built (GROQ_API_KEY set)
    req,        \* per request slot: route and body of the request
    pc,         \* per request slot: position of its handler
    resp,       \* per request slot: the response sent, NoResp before
    llmCalls,   \* per request slot: calls of groq.chat.completions.create
    mailCalls,  \* per request slot: calls of sendEmailHTML
    mockCalls,  \* per request slot: runs of the mock summarizer branch
    mailArgs,   \* per request slot: what sendEmailHTML was called with
    extResult,  \* per request slot: how its external call ended
    summary,    \* per request slot: the handler's normalized summary
    logged,     \* per request slot: what console.error was given
    page        \* the page of the client: summary.points and its last
                \* event, previewUrl, emailStatus, the sendSummary calls
                \* that wait for their response

vars == <<variant, mockEnv, USE_MOCK, groq, req, pc, resp, llmCalls, mailCalls,
          mockCalls, mailArgs, extResult, summary, logged, page>>

Variants == {"part_000", "part_001", "part_002", "server.js"}

(* ------------------------------ JS values ------------------------------ *)

JV(t, s, a, o) == [t |-> t, s |-> s, a |-> a, o |-> o]

Undefined == JV("undef", <<>>, <<>>, <<>>)
JFalse    == JV("bool", <<"false">>, <<>>, <<>>)
JTrue     == JV("bool", <<"true">>, <<>>, <<>>)
JNull     == JV("null", <<>>, <<>>, <<>>)
JStr(s)   == JV("str", s, <<>>, <<>>)
JNum(n)   == JV("num", <<n>>, <<>>, <<>>)
JArr(a)   == JV("arr", <<>>, a, <<>>)
JObj(o)   == JV("obj", <<>>, <<>>, o)

\* a text made of one word
W(w) == JStr(<<w>>)

\* JS truthiness, as used by !x and x || y
Truthy(v) ==
    \/ v.t \in {"obj", "arr"}
    \/ v.t = "str" /\ v.s # <<>>
    \/ v.t = "num" /\ v.s # <<"0">>
    \/ v.t = "bool" /\ v.s = <<"true">>

\* x || y
OrElse(x, y) == IF Truthy(x) THEN x ELSE y

\* obj?.key for the keys the handlers read; undefined on null, undefined,
\* primitives, arrays and objects without the key
Prop(obj, key) ==
    IF obj.t = "obj" /\ key \in DOMAIN obj.o THEN obj.o[key] ELSE Undefined

IsArray(v) == v.t = "arr"

\* arr.map(f)
MapSeq(f(_), q) == [i \in 1..Len(q) |-> f(q[i])]

(* ----------------------------- normalizer ------------------------------ *)

\* ActionItemShape with the task read from the owner property
ActionItemShape_TaskFromOwner(a) ==
    JObj([owner |-> OrElse(Prop(a, "owner"), W("Unassigned")),
          task  |-> OrElse(Prop(a, "owner"), JStr(<<>>)),
          due   |-> OrElse(Prop(a, "due"), JStr(<<>>))])

\* the element mapping of action_items: part_000 61-65, part_002 46-50
ActionItemShape(a) ==
    JObj([owner |-> OrElse(Prop(a, "owner"), W("Unassigned")),
          task  |-> OrElse(Prop(a, "task"), JStr(<<>>)),
          due   |-> OrElse(Prop(a, "due"), JStr(<<>>))])

\* part_000 and part_002 map the action items, part_001 and server.js keep
\* the array as it is
MapsActionItems == variant \in {"part_000", "part_002"}

\* ensureSummaryShape with obj?.points || [] in place of the Array.isArray
\* test
ensureSummaryShape_OrDefault(obj) ==
    JObj([points   |-> OrElse(Prop(obj, "points"), JArr(<<>>)),
          decisions |-> OrElse(Prop(obj, "decisions"), JArr(<<>>)),
          action_items |->
              IF IsArray(Prop(obj, "action_items"))
              THEN IF MapsActionItems
                   THEN JArr(MapSeq(ActionItemShape, Prop(obj, "action_items").a))
                   ELSE Prop(obj, "action_items")
              ELSE JArr(<<>>)])

ensureSummaryShape(obj) ==
    JObj([points   |-> IF IsArray(Prop(obj, "points"))
                       THEN Prop(obj, "points") ELSE JArr(<<>>),
          decisions |-> IF IsArray(Prop(obj, "decisions"))
                        THEN Prop(obj, "decisions") ELSE JArr(<<>>),
          action_items |->
              IF IsArray(Prop(obj, "action_items"))
              THEN IF MapsActionItems
                   THEN JArr(MapSeq(ActionItemShape, Prop(obj, "action_items").a))
                   ELSE Prop(obj, "action_items")
              ELSE JArr(<<>>)])

(* ------------------------------- texts --------------------------------- *)

\* the characters \s matches, among the tokens
IsWs(c) == c \in {" ", "\n", "\r", "\t"}

IsSentenceEnd(c) == c \in {".", "?", "!"}

\* String(v) for a JSON value
RECURSIVE JoinTexts(_)
ToText(v) ==
    CASE v.t \in {"str", "num", "bool"} -> v.s
      [] v.t = "arr"   -> JoinTexts(v.a)
      [] v.t = "obj"   -> <<"[object Object]">>
      [] v.t = "null"  -> <<"null">>
      [] OTHER         -> <<"undefined">>

\* Array.prototype.join(",") inside String(array): null and undefined
\* elements give the empty text; the elements used are never arrays
JoinTexts(q) ==
    IF q = <<>> THEN <<>>
    ELSE LET h == IF Head(q).t \in {"str", "num", "bool"} THEN Head(q).s
                  ELSE IF Head(q).t = "obj" THEN <<"[object Object]">>
                  ELSE <<>>
         IN  IF Len(q) = 1 THEN h ELSE h \o <<",">> \o JoinTexts(Tail(q))

\* first index >= i of t that is not whitespace, Len(t) + 1 when none
RECURSIVE SkipWs(_, _)
SkipWs(t, i) ==
    IF i > Len(t) \/ ~IsWs(t[i]) THEN i ELSE SkipWs(t, i + 1)

\* t.split(/\r?\n|[.?!]\s+/): at each position the first alternative that
\* matches ends the current piece; \s+ is greedy
RECURSIVE SplitFrom(_, _, _, _)
SplitFrom(t, i, cur, acc) ==
    IF i > Len(t) THEN Append(acc, cur)
    ELSE IF t[i] = "\r" /\ i < Len(t) /\ t[i + 1] = "\n"
         THEN SplitFrom(t, i + 2, <<>>, Append(acc, cur))
    ELSE IF t[i] = "\n"
         THEN SplitFrom(t, i + 1, <<>>, Append(acc, cur))
    ELSE IF IsSentenceEnd(t[i]) /\ i < Len(t) /\ IsWs(t[i + 1])
         THEN SplitFrom(t, SkipWs(t, i + 1), <<>>, Append(acc, cur))
    ELSE SplitFrom(t, i + 1, Append(cur, t[i]), acc)

SplitTranscript(t) == SplitFrom(t, 1, <<>>, <<>>)

\* s.trim()
RECURSIVE TrimRight(_)
TrimRight(t) ==
    IF t # <<>> /\ IsWs(t[Len(t)]) THEN TrimRight(SubSeq(t, 1, Len(t) - 1))
    ELSE t

Trim(t) == TrimRight(SubSeq(t, SkipWs(t, 1), Len(t)))

\* arr.filter(p)
FilterSeq(p(_), q) == SelectSeq(q, p)

\* arr.slice(0, n)
Slice0(q, n) == SubSeq(q, 1, IF Len(q) < n THEN Len(q) ELSE n)

NonEmptyText(t) == t # <<>>

\* String(transcript).split(...).map(s => s.trim()).filter(Boolean)
Lines(transcript) ==
    FilterSeq(NonEmptyText, MapSeq(Trim, SplitTranscript(ToText(transcript))))

(* ---------------------------- configuration --------------------------- *)

\* w.toLowerCase() for the words a configured value is made of
LowerWord(w) ==
    CASE w \in {"TRUE", "True"} -> "true"
      [] w \in {"YES", "Yes"}   -> "yes"
      [] w = "FALSE"            -> "false"
      [] OTHER                  -> w

\* t.toLowerCase()
toLowerCase(t) == [i \in 1..Len(t) |-> LowerWord(t[i])]

\* parseBool of part_000 48-51, which gives the default for undefined, null
\* and "", and of part_002 35-36, which gives it for undefined and null
parseBool(val, def) ==
    IF val \in {Undefined, JNull} \/ (val = JStr(<<>>) /\ variant = "part_000")
    THEN def
    ELSE toLowerCase(ToText(val)) \in {<<"true">>, <<"1">>, <<"yes">>}

\* the value USE_MOCK gets at startup: parseBool(env, true) in part_000,
\* parseBool(env, false) in part_002,
\* (env ?? "true").toString().toLowerCase() === "true" in the others
MockFlag(env) ==
    CASE variant = "part_000" -> parseBool(env, TRUE)
      [] variant = "part_002" -> parseBool(env, FALSE)
      [] OTHER -> toLowerCase(ToText(IF env \in {Undefined, JNull}
                                     THEN W("true") ELSE env)) = <<"true">>

\* values of the environment variable USE_MOCK; Undefined when it is unset
EnvValues ==
    { Undefined, JStr(<<>>), W("true"), W("TRUE"), W("True"), W("1"),
      W("yes"), W("YES"), W("false"), W("0"), W("no"), W("on"),
      JStr(<<" ", "true">>) }

(* --------------------------- mock summarizer --------------------------- *)

\* words of a point that /demo|approve|decision|agree/i matches (part_002 74)
DecisionWords == {"We agree on the demo"}

\* words of a point that
\* /by (monday|tuesday|wednesday|thursday|friday)|due|deliver|send/i matches
\* (part_002 78)
ActionWords == {"Send notes by Friday"}

HasDecisionWord(p) == \E i \in 1..Len(p) : p[i] \in DecisionWords
HasActionWord(p)   == \E i \in 1..Len(p) : p[i] \in ActionWords

\* !/^\s*\.\.\.\s*$/.test(l) on a trimmed line (part_002 69)
NotEllipsis(l) == l # <<".", ".", ".">>

MockDecisions == JArr(<<JStr(<<"Proceed with current timeline", ".">>)>>)

MockActionItems ==
    JArr(<<JObj([owner |-> W("John"), task |-> W("Finish API integration"),
                 due |-> W("Friday")]),
           JObj([owner |-> W("Sarah"), task |-> W("Design frontend UI"),
                 due |-> W("Wednesday")])>>)

\* part_001 49-54
PlaceholderPoints ==
    <<JStr(<<"Project timeline and next steps discussed", ".">>),
      JStr(<<"Owners assigned to action items", ".">>),
      JStr(<<"Next demo scheduled", ".">>),
      JStr(<<"Risks acknowledged and mitigations planned", ".">>)>>

MockOwners == <<W("John"), W("Sarah"), W("Alex")>>

\* MockPointTexts without the slice
MockPointTexts_Unsliced(transcript) ==
    IF variant = "part_002" THEN FilterSeq(NotEllipsis, Lines(transcript))
    ELSE Lines(transcript)

\* the points of the mock branch, as texts
MockPointTexts(transcript) ==
    CASE variant \in {"part_000", "server.js"} -> Slice0(Lines(transcript), 6)
      [] variant = "part_001" -> Slice0(Lines(transcript), 4)
      [] variant = "part_002" ->
             Slice0(FilterSeq(NotEllipsis, Lines(transcript)), 8)

\* the object the mock branch hands to ensureSummaryShape
MockCandidate(transcript) ==
    LET pts == MockPointTexts(transcript)
        acts == Slice0(FilterSeq(HasActionWord, pts), 3)
    IN  CASE variant \in {"part_000", "server.js"} ->
                 JObj([points |-> JArr(MapSeq(JStr, pts)),
                       decisions |-> MockDecisions,
                       action_items |-> MockActionItems])
          [] variant = "part_001" ->
                 JObj([points |-> IF Len(pts) # 0 THEN JArr(MapSeq(JStr, pts))
                                  ELSE JArr(PlaceholderPoints),
                       decisions |-> MockDecisions,
                       action_items |-> MockActionItems])
          [] variant = "part_002" ->
                 JObj([points |-> JArr(MapSeq(JStr, pts)),
                       decisions |->
                           IF \E i \in 1..Len(pts) : HasDecisionWord(pts[i])
                           THEN JArr(<<JStr(<<"Stakeholders aligned on next steps", ".">>)>>)
                           ELSE JArr(<<>>),
                       action_items |->
                           JArr([i \in 1..Len(acts) |->
                                 JObj([owner |-> MockOwners[i],
                                       task |-> JStr(acts[i]),
                                       due |-> JStr(<<>>)])])])

\* MockBranch with the flag alone tested in every copy
MockBranch_FlagOnly == USE_MOCK

\* the branch condition of the mock path: part_002 63 tests the flag alone
MockBranch ==
    IF variant = "part_002" THEN USE_MOCK ELSE USE_MOCK \/ ~groq

(* ------------------------- LLM text processing ------------------------- *)

\* JSON documents the model lets a client or the LLM service send.  A JSON
\* document inside a text is the single token DocToken(i).
JsonSamples ==
    << JNull,
       W("text"),
       JNum("7"),
       JArr(<<W("a")>>),
       JObj(<<>>),
       JObj([points |-> JArr(<<W("a"), W("b")>>),
             decisions |-> JArr(<<W("d")>>),
             action_items |-> JArr(<<JObj([owner |-> W("Bob"), task |-> W("t"),
                                           due |-> W("Fri")])>>)]),
       JObj([points |-> W("p"), decisions |-> JNum("7"),
             action_items |-> JObj([owner |-> W("Bob")])]),
       JObj([points |-> JArr(<<JNum("1"), JNull>>),
             decisions |-> JArr(<<JArr(<<W("x")>>)>>),
             action_items |-> JArr(<<W("s"), JNum("7"), JObj(<<>>)>>)]),
       JObj([points |-> JArr(<<W("a"), W("a")>>),
             action_items |-> JArr(<<JObj([owner |-> JStr(<<>>), task |-> JNum("0")]),
                                     JObj([due |-> W("d"), note |-> W("n")])>>)]),
       JObj([decisions |-> JArr(<<W("d")>>),
             action_items |-> JArr(<<JObj([owner |-> JNum("7"),
                                           task |-> JArr(<<W("x")>>),
                                           due |-> JTrue])>>)]),
       JObj([points |-> JArr(<<JStr(<<" ", "a", " ">>), JStr(<<"b", "\n", "c">>),
                               JStr(<<>>)>>),
             action_items |-> JArr(<<JNull>>)]) >>

DocToken(i) == "json#" \o ToString(i)

DocTokens == {DocToken(i) : i \in 1..Len(JsonSamples)}

DocOf(tok) == JsonSamples[CHOOSE i \in 1..Len(JsonSamples) : DocToken(i) = tok]

\* completion.choices?.[0]?.message?.content?.trim() || "{}"
CompletionText(content) ==
    IF content.t = "str" /\ Trim(content.s) # <<>> THEN Trim(content.s)
    ELSE <<"{}">>

\* text.replace(/^FENCEjson\s*|\s*FENCE$/g, ""), FENCE being the three
\* backquotes: the opening fence is removed only when the json tag follows
\* it, the closing fence together with the whitespace before it
StripFences(text) ==
    LET t1 == IF Len(text) >= 2 /\ text[1] = "FENCE" /\ text[2] = "json"
              THEN SubSeq(text, SkipWs(text, 3), Len(text))
              ELSE text
    IN  IF t1 # <<>> /\ t1[Len(t1)] = "FENCE"
        THEN TrimRight(SubSeq(t1, 1, Len(t1) - 1))
        ELSE t1

\* JSON.parse(text): whitespace around the document is allowed, anything
\* else makes it throw
ParseJSON(text) ==
    LET t == Trim(text)
    IN  IF Len(t) = 1 /\ t[1] \in DocTokens
        THEN [ok |-> TRUE, value |-> DocOf(t[1])]
        ELSE IF t = <<"{}">> THEN [ok |-> TRUE, value |-> JObj(<<>>)]
        ELSE [ok |-> FALSE, value |-> Undefined]

\* part_001 90-97
FallbackCandidate ==
    JObj([points |-> JArr(<<JStr(<<"Summary generated via fallback (mock)", ".">>),
                            JStr(<<"Set USE_MOCK=false and add GROQ_API_KEY to enable real AI", ".">>)>>)])

(* ------------------------------ rendering ------------------------------ *)

RECURSIVE Concat(_)
\* the concatenation of a sequence of texts: arr.join("")
Concat(q) == IF q = <<>> THEN <<>> ELSE Head(q) \o Concat(Tail(q))

BulletHTML(p) == <<"<li>">> \o ToText(p) \o <<"</li>">>

\* part_000 149 and part_002 151 print the fields as they are; part_001 119
\* and server.js 217 read a.owner || "Owner", a.task || "", a.due || ""
ActionItemHTML(a) ==
    IF MapsActionItems
    THEN <<"<li><strong>">> \o ToText(Prop(a, "owner")) \o <<"</strong>: ">>
         \o ToText(Prop(a, "task")) \o <<" - <em>">>
         \o ToText(Prop(a, "due")) \o <<"</em></li>">>
    ELSE <<"<li><strong>">> \o ToText(OrElse(Prop(a, "owner"), W("Owner")))
         \o <<"</strong>: ">> \o ToText(OrElse(Prop(a, "task"), JStr(<<>>)))
         \o <<" - <em>">> \o ToText(OrElse(Prop(a, "due"), JStr(<<>>)))
         \o <<"</em></li>">>

\* a.owner on a null element is a TypeError; only the copies that keep the
\* action items unmapped can meet one
RenderThrows(su) ==
    /\ ~MapsActionItems
    /\ \E i \in 1..Len(Prop(su, "action_items").a) :
           Prop(su, "action_items").a[i].t \in {"null", "undef"}

\* RenderHTML with the Decisions section printed whatever its length
RenderHTML_AlwaysDecisions(su) ==
    LET points    == Prop(su, "points").a
        decisions == Prop(su, "decisions").a
        actions   == Prop(su, "action_items").a
        bullets   == Concat(MapSeq(BulletHTML, points))
        decisionsHTML ==
            <<"<h4>Decisions</h4><ul>">>
            \o Concat(MapSeq(BulletHTML, decisions)) \o <<"</ul>">>
        actionsHTML ==
            IF Len(actions) # 0
            THEN <<"<h4>Action Items</h4><ul>">>
                 \o Concat(MapSeq(ActionItemHTML, actions)) \o <<"</ul>">>
            ELSE <<>>
    IN  IF variant = "part_001"
        THEN <<"\n", "    ", "<h2>Meeting Summary</h2>", "\n", "    ",
               "<h4>Key Points</h4>", "\n", "    ", "<ul>">> \o bullets
             \o <<"</ul>", "\n", "    ">> \o decisionsHTML
             \o <<"\n", "    ">> \o actionsHTML \o <<"\n", "  ">>
        ELSE <<"<h2>Meeting Summary</h2><h4>Key Points</h4><ul>">> \o bullets
             \o <<"</ul>">> \o decisionsHTML \o actionsHTML

\* the html of POST /send-summary: part_000 143-153, part_001 108-126
RenderHTML(su) ==
    LET points    == Prop(su, "points").a
        decisions == Prop(su, "decisions").a
        actions   == Prop(su, "action_items").a
        bullets   == Concat(MapSeq(BulletHTML, points))
        decisionsHTML ==
            IF Len(decisions) # 0
            THEN <<"<h4>Decisions</h4><ul>">>
                 \o Concat(MapSeq(BulletHTML, decisions)) \o <<"</ul>">>
            ELSE <<>>
        actionsHTML ==
            IF Len(actions) # 0
            THEN <<"<h4>Action Items</h4><ul>">>
                 \o Concat(MapSeq(ActionItemHTML, actions)) \o <<"</ul>">>
            ELSE <<>>
    IN  IF variant = "part_001"
        THEN <<"\n", "    ", "<h2>Meeting Summary</h2>", "\n", "    ",
               "<h4>Key Points</h4>", "\n", "    ", "<ul>">> \o bullets
             \o <<"</ul>", "\n", "    ">> \o decisionsHTML
             \o <<"\n", "    ">> \o actionsHTML \o <<"\n", "  ">>
        ELSE <<"<h2>Meeting Summary</h2><h4>Key Points</h4><ul>">> \o bullets
             \o <<"</ul>">> \o decisionsHTML \o actionsHTML

(* ------------------------------- handlers ------------------------------ *)

Slots == {"r1", "r2"}

NoResp   == [status |-> 0, body |-> <<>>]
NoArgs   == <<>>
NoResult == [kind |-> "none", value |-> Undefined, error |-> <<>>]
NoReq    == [route |-> "none", body |-> Undefined]

ErrRequired    == "Transcript and instruction are required"
ErrInvalidJSON == "Groq returned invalid JSON"
ErrServer      == "Failed to generate summary (server error)"
ErrNoKey       == "GROQ_API_KEY not configured. Set USE_MOCK=true to test without LLM."
ErrRecipients  == "Recipients array is required"
ErrSendSummary == "Failed to send summary"
ErrSendEmail   == "Failed to send email"

\* what one run of handler code does: where the handler is afterwards, the
\* response it sent, the calls it made and what it logged
Outcome(p, r, l) ==
    [pc |-> p, resp |-> r, mock |-> 0, llm |-> 0, mail |-> 0,
     mailArgs |-> NoArgs, summary |-> Undefined, log |-> l]

\* res.status(status).json(body), then return
Answer(status, body) == Outcome("done", [status |-> status, body |-> body], <<>>)

\* const summary = ensureSummaryShape(...), then res.json({ summary })
AnswerSummary(su) ==
    [Answer(200, [summary |-> su]) EXCEPT !.summary = su]

\* console.error(detail), then res.status(status).json(body)
AnswerLogged(status, body, detail) ==
    Outcome("done", [status |-> status, body |-> body], <<detail>>)

\* InvalidRequest with && in place of ||
InvalidRequest_BothMissing(transcript, instruction) ==
    ~Truthy(transcript) /\ ~Truthy(instruction)

\* !transcript || !instruction
InvalidRequest(transcript, instruction) ==
    ~Truthy(transcript) \/ ~Truthy(instruction)

\* GenerateStart with the await left out before groq.chat.completions
\* .create: completion is a pending promise, its choices are undefined, the
\* text is "{}" and the response is sent while the call is outstanding
GenerateStart_NoAwait(body) ==
    LET b           == OrElse(body, JObj(<<>>))
        transcript  == Prop(b, "transcript")
        instruction == Prop(b, "instruction")
    IN  IF InvalidRequest(transcript, instruction)
        THEN Answer(400, [error |-> ErrRequired])
        ELSE IF MockBranch
        THEN [AnswerSummary(ensureSummaryShape(MockCandidate(transcript)))
                 EXCEPT !.mock = 1]
        ELSE IF ~groq
        THEN Answer(500, [error |-> ErrNoKey])
        ELSE [AnswerSummary(ensureSummaryShape(JObj(<<>>))) EXCEPT !.llm = 1]

\* the handler of POST /generate-summary up to its first await
GenerateStart(body) ==
    LET b           == OrElse(body, JObj(<<>>))
        transcript  == Prop(b, "transcript")
        instruction == Prop(b, "instruction")
    IN  IF InvalidRequest(transcript, instruction)
        THEN Answer(400, [error |-> ErrRequired])
        ELSE IF MockBranch
        THEN [AnswerSummary(ensureSummaryShape(MockCandidate(transcript)))
                 EXCEPT !.mock = 1]
        ELSE IF ~groq
        THEN Answer(500, [error |-> ErrNoKey])
        ELSE [Outcome("awaitLLM", NoResp, <<>>) EXCEPT !.llm = 1]

\* AfterLLMFailure with the fallback summary of part_001 in every copy
AfterLLMFailure_Degrade(err) ==
    [AnswerSummary(ensureSummaryShape(FallbackCandidate))
        EXCEPT !.log = <<err>>]

\* the catch of the Groq path: part_001 answers with the fallback summary
AfterLLMFailure(err) ==
    IF variant = "part_001"
    THEN [AnswerSummary(ensureSummaryShape(FallbackCandidate))
             EXCEPT !.log = <<err>>]
    ELSE AnswerLogged(500, [error |-> ErrServer], err)

SyntaxError == <<"SyntaxError: Unexpected token">>

\* AfterCompletion answering with the parsed JSON as it is
AfterCompletion_Unnormalized(content) ==
    LET text   == StripFences(CompletionText(content))
        parsed == ParseJSON(text)
    IN  IF parsed.ok
        THEN AnswerSummary(parsed.value)
        ELSE CASE variant = "part_000" ->
                      AnswerLogged(500, [error |-> ErrInvalidJSON], text)
               [] variant = "part_002" ->
                      AnswerLogged(502, [error |-> ErrInvalidJSON], text)
               [] OTHER -> AfterLLMFailure(SyntaxError)

\* the handler of POST /generate-summary after groq.chat.completions.create
\* resolved with the given message content
AfterCompletion(content) ==
    LET text   == StripFences(CompletionText(content))
        parsed == ParseJSON(text)
    IN  IF parsed.ok
        THEN AnswerSummary(ensureSummaryShape(parsed.value))
        ELSE CASE variant = "part_000" ->
                      AnswerLogged(500, [error |-> ErrInvalidJSON], text)
               [] variant = "part_002" ->
                      AnswerLogged(502, [error |-> ErrInvalidJSON], text)
               [] OTHER -> AfterLLMFailure(SyntaxError)

\* HasLength testing recipients where recipients.length is meant
HasLength_AnyArray(v) == v.t = "arr" \/ (v.t = "str" /\ v.s # <<>>)

\* !recipients.length is false: a non-empty array or a non-empty string
HasLength(v) == (v.t = "arr" /\ Len(v.a) # 0) \/ (v.t = "str" /\ v.s # <<>>)

TypeError == <<"TypeError: Cannot read properties of null (reading 'owner')">>

\* an exception that leaves an async handler outside any try: Express 4
\* never answers the request, Express 5 hands the error to its default
\* error handler, which answers 500 with an HTML page
Unhandled(detail) ==
    { Outcome("unhandled", NoResp, <<>>),
      Outcome("done", [status |-> 500, body |-> [html |-> detail]], <<>>) }

\* the handler of POST /send-summary up to its await: the set of outcomes
SendStart(body) ==
    LET rawSummary == OrElse(Prop(body, "summary"), JObj(<<>>))
        recipients == OrElse(Prop(body, "recipients"), JArr(<<>>))
        su         == ensureSummaryShape(rawSummary)
        outcomes   ==
            IF ~HasLength(recipients)
            THEN {Answer(400, [error |-> ErrRecipients])}
            ELSE IF RenderThrows(su)
            THEN IF variant = "part_001" THEN Unhandled(TypeError)
                 ELSE {AnswerLogged(500, [error |-> ErrSendSummary], TypeError)}
            ELSE {[Outcome("awaitMail", NoResp, <<>>) EXCEPT
                      !.mail = 1,
                      !.mailArgs = [recipients |-> recipients,
                                    subject |-> "Meeting Summary",
                                    html |-> RenderHTML(su)]]}
    IN  {[o EXCEPT !.summary = su] : o \in outcomes}

SentMessage ==
    CASE variant \in {"part_000", "part_002"} -> "Email sent (preview available)"
      [] variant = "part_001" -> "Mock email sent successfully"
      [] variant = "server.js" -> "Mock email sent"

\* AfterMailSent answering without the preview URL
AfterMailSent_NoUrl(previewUrl) ==
    Answer(200, [message |-> SentMessage, previewUrl |-> JStr(<<>>)])

\* the handler of POST /send-summary after sendEmailHTML resolved
AfterMailSent(previewUrl) ==
    Answer(200, [message |-> SentMessage, previewUrl |-> previewUrl])

\* AfterMailFailure with no catch around sendEmailHTML, on Express 4
AfterMailFailure_Uncaught(err) == Outcome("unhandled", NoResp, <<>>)

\* the catch around sendEmailHTML
AfterMailFailure(err) ==
    AnswerLogged(500, [error |-> IF variant = "part_001" THEN ErrSendEmail
                                 ELSE ErrSendSummary], err)

(* -------------------------------- inputs ------------------------------- *)

\* the longest transcript of plain sentences the model sends
MaxSentences == 9

RECURSIVE Sentences(_)
\* "1. 2. ... k." : k sentences, each ended by a full stop
Sentences(k) ==
    IF k = 0 THEN <<>>
    ELSE Sentences(k - 1) \o (IF k = 1 THEN <<>> ELSE <<" ">>)
         \o <<ToString(k), ".">>

Transcripts ==
    { Undefined, JStr(<<>>), JStr(<<" ", "\n">>), JStr(<<"!", " ", "?", "\n">>),
      JNum("5"), JArr(<<>>),
      JStr(<<"We agree on the demo", ".", " ", "Send notes by Friday", "\r",
             "\n", " ", "Line three", "?", "\n", ".", ".", ".">>) }
    \cup { JStr(Sentences(k)) : k \in 1..MaxSentences }

Instructions == { Undefined, JStr(<<>>), W("Summarize in bullets") }

\* an object holding the given properties, the undefined ones left out
ObjectOf(o) == JObj([k \in {x \in DOMAIN o : o[x] # Undefined} |-> o[k]])

GenerateBodies ==
    {Undefined} \cup
    { ObjectOf([transcript |-> t, instruction |-> i]) :
        t \in Transcripts, i \in Instructions }

Summaries == {Undefined} \cup {JsonSamples[i] : i \in 1..Len(JsonSamples)}

Recipients ==
    { Undefined, JArr(<<>>), JArr(<<W("a@example.com")>>),
      JArr(<<W("a@example.com"), W("b@example.com")>>), W("a@example.com") }

SendBodies ==
    {Undefined} \cup
    { ObjectOf([summary |-> su, recipients |-> re]) :
        su \in Summaries, re \in Recipients }

\* message contents the completion service may answer with
Completions ==
    { Undefined,
      JStr(<<DocToken(6)>>),
      JStr(<<DocToken(1)>>),
      JStr(<<DocToken(7)>>),
      JStr(<<" ", DocToken(8), "\n">>),
      JStr(<<"FENCE", "json", "\n", DocToken(9), "\n", "FENCE">>),
      JStr(<<"FENCE", "\n", DocToken(6), "\n", "FENCE">>),
      JStr(<<"Here is the summary">>),
      JStr(<<" ">>) }

\* the messages of the exceptions the external calls may raise
LLMErrors  == { <<"401 Invalid API Key">>, <<"connect ETIMEDOUT">> }
MailErrors == { <<"connect ECONNREFUSED smtp.ethereal.email">> }
JoinError  == <<"TypeError: recipients.join is not a function">>

\* what nodemailer.getTestMessageUrl may give: a URL, or false
PreviewUrls == { W("https://ethereal.email/message/1"),
                 W("https://ethereal.email/message/2"), JFalse }

(* ----------------------------- client page ----------------------------- *)

\* const safeArr = (v) => (Array.isArray(v) ? v : [])
safeArr(v) == IF IsArray(v) THEN v ELSE JArr(<<>>)

RECURSIVE JoinLines(_)
\* q.join("\n"): null and undefined elements give the empty text, every
\* other element its String()
JoinLines(q) ==
    IF q = <<>> THEN <<>>
    ELSE LET h == IF Head(q).t \in {"null", "undef"} THEN <<>>
                  ELSE ToText(Head(q))
         IN  IF Len(q) = 1 THEN h ELSE h \o <<"\n">> \o JoinLines(Tail(q))

\* const toLines = (arr) => safeArr(arr).join("\n")
toLines(arr) == JoinLines(safeArr(arr).a)

RECURSIVE SplitLinesFrom(_, _, _, _)
SplitLinesFrom(t, i, cur, acc) ==
    IF i > Len(t) THEN Append(acc, cur)
    ELSE IF t[i] = "\n" THEN SplitLinesFrom(t, i + 1, <<>>, Append(acc, cur))
    ELSE SplitLinesFrom(t, i + 1, Append(cur, t[i]), acc)

\* value.split("\n")
SplitLines(t) == SplitLinesFrom(t, 1, <<>>, <<>>)

\* onChangePoints without the filter(Boolean)
onChangePoints_NoFilter(value) ==
    JArr(MapSeq(JStr, MapSeq(Trim, SplitLines(value))))

\* e.target.value.split("\n").map((x) => x.trim()).filter(Boolean)
onChangePoints(value) ==
    JArr(MapSeq(JStr, FilterSeq(NonEmptyText, MapSeq(Trim, SplitLines(value)))))

DEFAULT_SUMMARY ==
    JObj([points |-> JArr(<<>>), decisions |-> JArr(<<>>),
          action_items |-> JArr(<<>>)])

\* the page as useState leaves it: no points, no event handled yet, no
\* preview link, no email status.  fresh counts the sendSummary calls in
\* flight that started after the last summary arrived, stale those that
\* started before it; freshDone tells whether a call started after the
\* last summary arrived has completed.
NewPage ==
    [points |-> JArr(<<>>), before |-> JArr(<<>>), typed |-> <<>>,
     event |-> "none", previewUrl |-> JStr(<<>>), emailStatus |-> "",
     fresh |-> 0, stale |-> 0, freshDone |-> FALSE]

\* the summaries a 200 response of /generate-summary may carry
ReceivedSummaries ==
    {Undefined}
    \cup {ensureSummaryShape(JsonSamples[i]) : i \in 1..Len(JsonSamples)}
    \cup {ensureSummaryShape(MockCandidate(t)) :
             t \in {tr \in Transcripts : Truthy(tr)}}
    \cup {JObj([points |-> JArr(<<JStr(<<" ", "a", "\t">>), JStr(<<" ">>),
                                  W("b"), JStr(<<"c", " ", "d">>),
                                  JStr(<<>>), W("b")>>)])}

\* the most points the editor holds before the user adds no more lines
MaxPoints == 8

\* what the points textarea may hold when its change event fires: the text
\* it was rendered with, that text with a line added, nothing, or a text
\* typed afresh
TypedTexts ==
    { toLines(page.points),
      <<>>,
      <<" ", "x", "\t", "\n", "\n", "y", "\r">> }
    \cup (IF Len(page.points.a) < MaxPoints
          THEN {toLines(page.points) \o <<"\n", "e">>}
          ELSE {})

\* the most sendSummary calls the page has in flight at a time
MaxInFlight == 2

RECURSIVE SplitCommasFrom(_, _, _, _)
SplitCommasFrom(t, i, cur, acc) ==
    IF i > Len(t) THEN Append(acc, cur)
    ELSE IF t[i] = "," THEN SplitCommasFrom(t, i + 1, <<>>, Append(acc, cur))
    ELSE SplitCommasFrom(t, i + 1, Append(cur, t[i]), acc)

\* recipients.split(",").map((r) => r.trim()).filter(Boolean)
recipientsArr(recipients) ==
    FilterSeq(NonEmptyText, MapSeq(Trim, SplitCommasFrom(recipients, 1, <<>>, <<>>)))

\* what the recipients field may hold when Send Summary is clicked
RecipientTexts ==
    { <<>>, <<" ", ",", " ">>, <<"a@example.com">>,
      <<"a@example.com", ",", " ", "b@example.com">> }

(* ------------------------------- actions ------------------------------- *)

\* the server started with USE_MOCK set to one of envs, no request received
Started(envs) ==
    /\ variant \in Variants
    /\ mockEnv \in envs
    /\ USE_MOCK = MockFlag(mockEnv)
    /\ groq \in BOOLEAN
    /\ req = [r \in Slots |-> NoReq]
    /\ pc = [r \in Slots |-> "idle"]
    /\ resp = [r \in Slots |-> NoResp]
    /\ llmCalls = [r \in Slots |-> 0]
    /\ mailCalls = [r \in Slots |-> 0]
    /\ mockCalls = [r \in Slots |-> 0]
    /\ mailArgs = [r \in Slots |-> NoArgs]
    /\ extResult = [r \in Slots |-> NoResult]
    /\ summary = [r \in Slots |-> Undefined]
    /\ logged = [r \in Slots |-> <<>>]
    /\ page = NewPage

Init == Started({W("true"), W("false")})

\* Run with a handler that turns the mock flag on once it has logged a
\* failure
Run_MockAfterFailure(r, o) ==
    /\ pc' = [pc EXCEPT ![r] = o.pc]
    /\ resp' = [resp EXCEPT ![r] = o.resp]
    /\ llmCalls' = [llmCalls EXCEPT ![r] = @ + o.llm]
    /\ mailCalls' = [mailCalls EXCEPT ![r] = @ + o.mail]
    /\ mockCalls' = [mockCalls EXCEPT ![r] = @ + o.mock]
    /\ mailArgs' = [mailArgs EXCEPT ![r] = IF o.mail = 1 THEN o.mailArgs ELSE @]
    /\ summary' = [summary EXCEPT ![r] =
                       IF o.summary # Undefined THEN o.summary ELSE @]
    /\ logged' = [logged EXCEPT ![r] = @ \o o.log]
    /\ USE_MOCK' = (USE_MOCK \/ o.log # <<>>)
    /\ UNCHANGED <<variant, mockEnv, groq, page>>

\* the handler of slot r runs from where it is to its next await or return
Run(r, o) ==
    /\ pc' = [pc EXCEPT ![r] = o.pc]
    /\ resp' = [resp EXCEPT ![r] = o.resp]
    /\ llmCalls' = [llmCalls EXCEPT ![r] = @ + o.llm]
    /\ mailCalls' = [mailCalls EXCEPT ![r] = @ + o.mail]
    /\ mockCalls' = [mockCalls EXCEPT ![r] = @ + o.mock]
    /\ mailArgs' = [mailArgs EXCEPT ![r] = IF o.mail = 1 THEN o.mailArgs ELSE @]
    /\ summary' = [summary EXCEPT ![r] =
                       IF o.summary # Undefined THEN o.summary ELSE @]
    /\ logged' = [logged EXCEPT ![r] = @ \o o.log]
    /\ UNCHANGED <<variant, mockEnv, USE_MOCK, groq, page>>

\* POST /generate-summary arrives with the given body
GenerateSummary(r, body) ==
    /\ pc[r] = "idle"
    /\ req' = [req EXCEPT ![r] = [route |-> "/generate-summary", body |-> body]]
    /\ Run(r, GenerateStart(body))
    /\ UNCHANGED extResult

\* groq.chat.completions.create resolves
LLMResolve(r, content) ==
    /\ pc[r] = "awaitLLM"
    /\ extResult' = [extResult EXCEPT ![r] =
                        [kind |-> "ok", value |-> content, error |-> <<>>]]
    /\ Run(r, AfterCompletion(content))
    /\ UNCHANGED req

\* groq.chat.completions.create rejects
LLMReject(r, err) ==
    /\ pc[r] = "awaitLLM"
    /\ extResult' = [extResult EXCEPT ![r] =
                        [kind |-> "error", value |-> Undefined, error |-> err]]
    /\ Run(r, AfterLLMFailure(err))
    /\ UNCHANGED req

\* POST /send-summary arrives with the given body
SendSummary(r, body) ==
    /\ pc[r] = "idle"
    /\ req' = [req EXCEPT ![r] = [route |-> "/send-summary", body |-> body]]
    /\ \E o \in SendStart(body) : Run(r, o)
    /\ UNCHANGED extResult

\* sendEmailHTML resolves with the preview URL; it can only when
\* recipients.join exists
MailResolve(r, previewUrl) ==
    /\ pc[r] = "awaitMail"
    /\ mailArgs[r].recipients.t = "arr"
    /\ extResult' = [extResult EXCEPT ![r] =
                        [kind |-> "ok", value |-> previewUrl, error |-> <<>>]]
    /\ Run(r, AfterMailSent(previewUrl))
    /\ UNCHANGED req

\* sendEmailHTML rejects: the test account or the transport failed, or
\* recipients.join threw
MailReject(r, err) ==
    /\ pc[r] = "awaitMail"
    /\ err = JoinError => mailArgs[r].recipients.t # "arr"
    /\ extResult' = [extResult EXCEPT ![r] =
                        [kind |-> "error", value |-> Undefined, error |-> err]]
    /\ Run(r, AfterMailFailure(err))
    /\ UNCHANGED req

Next ==
    \/ \E r \in Slots, body \in GenerateBodies : GenerateSummary(r, body)
    \/ \E r \in Slots, content \in Completions : LLMResolve(r, content)
    \/ \E r \in Slots, err \in LLMErrors : LLMReject(r, err)
    \/ \E r \in Slots, body \in SendBodies : SendSummary(r, body)
    \/ \E r \in Slots, url \in PreviewUrls : MailResolve(r, url)
    \/ \E r \in Slots, err \in MailErrors \cup {JoinError} : MailReject(r, err)

Spec == Init /\ [][Next]_vars

\* the server with one request at a time
NextSerial ==
    \/ \E body \in GenerateBodies : GenerateSummary("r1", body)
    \/ \E content \in Completions : LLMResolve("r1", content)
    \/ \E err \in LLMErrors : LLMReject("r1", err)
    \/ \E body \in SendBodies : SendSummary("r1", body)
    \/ \E url \in PreviewUrls : MailResolve("r1", url)
    \/ \E err \in MailErrors \cup {JoinError} : MailReject("r1", err)

\* the server started under any value of USE_MOCK
InitStartup == Started(EnvValues)

SpecStartup == InitStartup /\ [][NextSerial]_vars

\* generateSummary got a 200 response carrying su: setSummary({points:
\* safeArr(s.points), ...}), setPreviewUrl(""), setEmailStatus("")
SetSummary(su) ==
    /\ page' = [page EXCEPT
                   !.points = safeArr(Prop(OrElse(su, DEFAULT_SUMMARY), "points")),
                   !.event = "setSummary",
                   !.previewUrl = JStr(<<>>),
                   !.emailStatus = "",
                   !.stale = @ + page.fresh,
                   !.fresh = 0,
                   !.freshDone = FALSE]
    /\ UNCHANGED <<variant, mockEnv, USE_MOCK, groq, req, pc, resp, llmCalls,
                   mailCalls, mockCalls, mailArgs, extResult, summary, logged>>

\* the change event of the points textarea fires with the given value
ChangePoints(value) ==
    /\ page' = [page EXCEPT
                   !.points = onChangePoints(value), !.before = page.points,
                   !.typed = value, !.event = "changePoints"]
    /\ UNCHANGED <<variant, mockEnv, USE_MOCK, groq, req, pc, resp, llmCalls,
                   mailCalls, mockCalls, mailArgs, extResult, summary, logged>>

NextEditor ==
    \/ \E su \in ReceivedSummaries : SetSummary(su)
    \/ \E value \in TypedTexts : ChangePoints(value)

\* the summary editor of the page, the server left aside
SpecEditor == Init /\ [][NextEditor]_vars

\* the Send Summary button is clicked with the given text in the recipients
\* field: sendSummary runs up to its await, or returns after the alert
ClickSend(recipients) ==
    /\ page.fresh + page.stale < MaxInFlight
    /\ page' = IF recipientsArr(recipients) = <<>> THEN page
                ELSE [page EXCEPT !.fresh = @ + 1]
    /\ UNCHANGED <<variant, mockEnv, USE_MOCK, groq, req, pc, resp, llmCalls,
                   mailCalls, mockCalls, mailArgs, extResult, summary, logged>>

\* a sendSummary call in flight, fresh or stale, gets a 200 response with
\* the given previewUrl: setPreviewUrl(url), setEmailStatus("success")
SendSucceeds(kind, previewUrl) ==
    /\ page[kind] > 0
    /\ page' = [page EXCEPT
                   ![kind] = @ - 1,
                   !.previewUrl = OrElse(previewUrl, JStr(<<>>)),
                   !.emailStatus = "success",
                   !.freshDone = @ \/ kind = "fresh"]
    /\ UNCHANGED <<variant, mockEnv, USE_MOCK, groq, req, pc, resp, llmCalls,
                   mailCalls, mockCalls, mailArgs, extResult, summary, logged>>

\* a sendSummary call in flight gets an error response or none:
\* setEmailStatus("error")
SendFails(kind) ==
    /\ page[kind] > 0
    /\ page' = [page EXCEPT
                   ![kind] = @ - 1,
                   !.emailStatus = "error",
                   !.freshDone = @ \/ kind = "fresh"]
    /\ UNCHANGED <<variant, mockEnv, USE_MOCK, groq, req, pc, resp, llmCalls,
                   mailCalls, mockCalls, mailArgs, extResult, summary, logged>>

NextClient ==
    \/ \E su \in ReceivedSummaries : SetSummary(su)
    \/ \E recipients \in RecipientTexts : ClickSend(recipients)
    \/ \E kind \in {"fresh", "stale"}, url \in PreviewUrls \cup {Undefined} :
           SendSucceeds(kind, url)
    \/ \E kind \in {"fresh", "stale"} : SendFails(kind)

\* generateSummary and sendSummary of the page, the server left aside
SpecClient == Init /\ [][NextClient]_vars

(* ------------------------------- claims -------------------------------- *)

\* the transcript, instruction, summary or recipients field of the request
\* of slot r, Undefined when the body or the field is missing
Field(r, key) == Prop(req[r].body, key)

IsGenerate(r) == req[r].route = "/generate-summary"
IsSend(r)     == req[r].route = "/send-summary"

MissingOrEmpty(v) == v = Undefined \/ v = JStr(<<>>)

NonEmptyString(v) == v.t = "str" /\ v.s # <<>>

ValidGenerate(r) ==
    /\ IsGenerate(r)
    /\ NonEmptyString(Field(r, "transcript"))
    /\ NonEmptyString(Field(r, "instruction"))

\* recipients that are a non-empty sequence or a non-empty string
HasRecipients(v) == (v.t = "arr" /\ v.a # <<>>) \/ NonEmptyString(v)

\* C1: a /generate-summary request whose transcript or instruction is
\* missing or empty is answered 400 "Transcript and instruction are
\* required", whatever the mode, and neither the mock summarizer nor the
\* LLM service runs for it.
C1_InvalidRequestRejected ==
    \A r \in Slots :
        (IsGenerate(r) /\ (MissingOrEmpty(Field(r, "transcript"))
                           \/ MissingOrEmpty(Field(r, "instruction"))))
        => /\ pc[r] = "done"
           /\ resp[r] = [status |-> 400,
                          body |-> [error |-> "Transcript and instruction are required"]]
           /\ mockCalls[r] = 0
           /\ llmCalls[r] = 0

\* an empty instruction rejected in LLM mode while the other slot holds a
\* rejected request with the transcript missing
C1_Witness ==
    /\ ~USE_MOCK /\ groq
    /\ IsGenerate("r1") /\ Field("r1", "instruction") = JStr(<<>>)
    /\ NonEmptyString(Field("r1", "transcript"))
    /\ resp["r1"].status = 400
    /\ IsGenerate("r2") /\ Field("r2", "transcript") = Undefined
    /\ resp["r2"].status = 400

\* C2 as stated: a valid request is answered 200 by the mock summarizer,
\* without a call of the LLM service, whenever the mock flag is on or no
\* credential is configured.
C2_MissingCredentialForcesMock ==
    \A r \in Slots :
        (ValidGenerate(r) /\ (USE_MOCK \/ ~groq))
        => /\ resp[r].status = 200
           /\ mockCalls[r] = 1
           /\ llmCalls[r] = 0

\* C2 amended: a valid request is answered 200 by the mock summarizer when
\* the mock flag is on, and also when no credential is configured in every
\* copy but part_002; part_002 with the flag off and no credential answers
\* 500 with the configuration error and runs no summarizer.  The LLM
\* service is never called when the flag is on or the credential missing.
C2_MockOrConfigurationError ==
    \A r \in Slots :
        (ValidGenerate(r) /\ (USE_MOCK \/ ~groq))
        => /\ llmCalls[r] = 0
           /\ pc[r] = "done"
           /\ IF USE_MOCK \/ variant # "part_002"
              THEN /\ resp[r].status = 200
                   /\ DOMAIN resp[r].body = {"summary"}
                   /\ mockCalls[r] = 1
              ELSE /\ resp[r] = [status |-> 500, body |-> [error |-> ErrNoKey]]
                   /\ mockCalls[r] = 0

\* the flag is off and the credential missing: part_000 answers from the
\* mock summarizer
C2_Witness ==
    /\ variant = "part_000" /\ ~USE_MOCK /\ ~groq
    /\ ValidGenerate("r1")
    /\ resp["r1"].status = 200 /\ mockCalls["r1"] = 1

SummaryKeys == {"points", "decisions", "action_items"}

\* the three fields are present and each is a sequence
HasThreeSequences(su) ==
    /\ su.t = "obj"
    /\ DOMAIN su.o = SummaryKeys
    /\ \A k \in SummaryKeys : su.o[k].t = "arr"

\* C3: every 200 response of /generate-summary, from the mock path, the
\* LLM path or the fallback, carries a summary with points, decisions and
\* action_items all present and each a sequence.
C3_ResponsesNormalized ==
    \A r \in Slots :
        (IsGenerate(r) /\ resp[r].status = 200)
        => /\ DOMAIN resp[r].body = {"summary"}
           /\ HasThreeSequences(resp[r].body.summary)

\* the LLM service returned an object whose three fields have wrong types,
\* and the request was answered 200
C3_Witness ==
    \E r \in Slots :
        /\ IsGenerate(r) /\ resp[r].status = 200
        /\ extResult[r].kind = "ok"
        /\ extResult[r].value = JStr(<<DocToken(7)>>)

IsStringSeq(v) == v.t = "arr" /\ \A i \in 1..Len(v.a) : v.a[i].t = "str"

ActionItemKeys == {"owner", "task", "due"}

IsActionItemSeq(v) ==
    /\ v.t = "arr"
    /\ \A i \in 1..Len(v.a) :
           v.a[i].t = "obj" /\ DOMAIN v.a[i].o = ActionItemKeys

\* a handler has normalized a summary in slot r
Normalized(r) == req[r].route # "none" /\ summary[r] # Undefined

\* C4 as stated: whatever the input, the normalizer returns a record in
\* which points and decisions are sequences of strings and action_items a
\* sequence of records with exactly the fields owner, task and due.
C4_FullShape ==
    \A r \in Slots :
        Normalized(r)
        => /\ HasThreeSequences(summary[r])
           /\ IsStringSeq(summary[r].o.points)
           /\ IsStringSeq(summary[r].o.decisions)
           /\ IsActionItemSeq(summary[r].o.action_items)

\* C4 amended: the normalizer is total and returns a record in which
\* points, decisions and action_items are sequences; the elements of
\* points and decisions are kept as given, of whatever type; part_000 and
\* part_002 make every element of action_items a record with exactly the
\* fields owner, task and due, part_001 and server.js keep the elements of
\* action_items as given.
C4_SequencesShape ==
    \A r \in Slots :
        /\ IsSend(r) => Normalized(r)
        /\ Normalized(r)
           => /\ HasThreeSequences(summary[r])
              /\ MapsActionItems => IsActionItemSeq(summary[r].o.action_items)

\* /send-summary normalized the object whose fields are a string, a number
\* and an object, in a copy that maps the action items
C4_Witness ==
    \E r \in Slots :
        /\ MapsActionItems
        /\ IsSend(r) /\ Field(r, "summary") = JsonSamples[7]
        /\ Normalized(r)

\* C5: normalizing a normalized summary gives the same summary, field by
\* field.
C5_Idempotent ==
    \A r \in Slots :
        Normalized(r) => ensureSummaryShape(summary[r]) = summary[r]

\* a normalized summary whose first action item got the owner default
C5_Witness ==
    \E r \in Slots :
        /\ IsSend(r) /\ Normalized(r)
        /\ Field(r, "summary") = JsonSamples[9]
        /\ summary[r].o.action_items.a[1].o.owner = W("Unassigned")

\* C6: in mock mode a request that passes validation is answered with a
\* summary whose points are not empty and whose decisions and
\* action_items are present.
C6_MockPointsNonEmpty ==
    \A r \in Slots :
        (ValidGenerate(r) /\ USE_MOCK)
        => /\ resp[r].status = 200
           /\ Len(resp[r].body.summary.o.points.a) > 0
           /\ {"decisions", "action_items"} \subseteq DOMAIN resp[r].body.summary.o

\* C7: a /send-summary request whose recipients are missing or an empty
\* sequence is answered 400 with a JSON error body, whatever its summary
\* field holds, and sendEmailHTML is never called for it.
C7_EmptyRecipientsRejected ==
    \A r \in Slots :
        (IsSend(r) /\ Field(r, "recipients") \in {Undefined, JArr(<<>>)})
        => /\ pc[r] = "done"
           /\ resp[r].status = 400
           /\ DOMAIN resp[r].body = {"error"}
           /\ resp[r].body.error = ErrRecipients
           /\ mailCalls[r] = 0
           /\ mailArgs[r] = NoArgs

\* part_001 rejects empty recipients although the summary holds a null
\* action item, which its rendering could not print
C7_Witness ==
    \E r \in Slots :
        /\ variant = "part_001"
        /\ IsSend(r) /\ Field(r, "recipients") = JArr(<<>>)
        /\ Field(r, "summary") = JsonSamples[11]
        /\ resp[r].status = 400

\* C8: when sendEmailHTML succeeds for a /send-summary request, the
\* response is 200 with a message and the preview URL sendEmailHTML
\* returned for this request, and sendEmailHTML was given the recipients of
\* this request.
C8_PreviewUrlReturned ==
    \A r \in Slots :
        (IsSend(r) /\ extResult[r].kind = "ok")
        => /\ HasRecipients(Field(r, "recipients"))
           /\ resp[r].status = 200
           /\ DOMAIN resp[r].body = {"message", "previewUrl"}
           /\ resp[r].body.previewUrl = extResult[r].value
           /\ mailArgs[r].recipients = Field(r, "recipients")

\* two mails sent at the same time, to different recipients, got different
\* preview URLs
C8_Witness ==
    /\ IsSend("r1") /\ extResult["r1"].kind = "ok"
    /\ IsSend("r2") /\ extResult["r2"].kind = "ok"
    /\ extResult["r1"].value # extResult["r2"].value
    /\ Field("r1", "recipients") # Field("r2", "recipients")
    /\ resp["r1"].status = 200 /\ resp["r2"].status = 200

FixedErrors ==
    {ErrRequired, ErrInvalidJSON, ErrServer, ErrNoKey, ErrRecipients,
     ErrSendSummary, ErrSendEmail}

\* C9: every response of the two routes with a status other than 200 is a
\* JSON body holding only an error string from the fixed set of messages;
\* what was thrown or what the LLM service returned is not in it.
C9_FailuresAreFixedJson ==
    \A r \in Slots :
        (resp[r] # NoResp /\ resp[r].status # 200)
        => /\ DOMAIN resp[r].body = {"error"}
           /\ resp[r].body.error \in FixedErrors

\* the conditions on which the handler goes to the LLM service
OnLLMPath(r) == ValidGenerate(r) /\ ~USE_MOCK /\ groq

\* C10: a request calls the LLM service at most once and sendEmailHTML at
\* most once, also after a failure; a valid /generate-summary request on
\* the LLM path calls the LLM service exactly once and a /send-summary
\* request with non-empty recipients calls sendEmailHTML exactly once.
C10_ExactlyOneExternalCall ==
    \A r \in Slots :
        /\ llmCalls[r] <= 1
        /\ mailCalls[r] <= 1
        /\ OnLLMPath(r) => llmCalls[r] = 1
        /\ (IsSend(r) /\ HasRecipients(Field(r, "recipients"))) => mailCalls[r] = 1

\* the LLM service answered the request of slot r and the text it gave,
\* fences stripped, is not JSON
InvalidJsonFailure(r) ==
    /\ IsGenerate(r) /\ llmCalls[r] = 1
    /\ extResult[r].kind = "ok"
    /\ ~ParseJSON(StripFences(CompletionText(extResult[r].value))).ok

\* the call of the LLM service failed for the request of slot r
LLMCallFailure(r) ==
    IsGenerate(r) /\ llmCalls[r] = 1 /\ extResult[r].kind = "error"

\* C11: on the LLM path the response to a text that is not valid JSON
\* never has the same status and body as the response to a failed call of
\* the LLM service.
C11_FailureKindsDistinct ==
    \A r1, r2 \in Slots :
        (InvalidJsonFailure(r1) /\ LLMCallFailure(r2))
        => resp[r1] # resp[r2]

\* C12: on the LLM path every failure, of the call or of the parse, is
\* answered under one policy: either every failed request gets a status
\* 500 or 502 with an error body and no summary, or every failed request
\* gets 200 with the degraded summary; two failed requests never get one
\* policy each.
C12_OneFailurePolicy ==
    \A r1, r2 \in Slots :
        ((InvalidJsonFailure(r1) \/ LLMCallFailure(r1))
         /\ (InvalidJsonFailure(r2) \/ LLMCallFailure(r2)))
        => \/ /\ resp[r1].status \in {500, 502}
              /\ resp[r2].status \in {500, 502}
              /\ DOMAIN resp[r1].body = {"error"}
              /\ DOMAIN resp[r2].body = {"error"}
           \/ /\ resp[r1].status = 200 /\ resp[r2].status = 200
              /\ DOMAIN resp[r1].body = {"summary"}
              /\ DOMAIN resp[r2].body = {"summary"}
              /\ resp[r1].body.summary = ensureSummaryShape(FallbackCandidate)
              /\ resp[r2].body.summary = ensureSummaryShape(FallbackCandidate)

\* one request failed on the parse and the other on the call, in a copy
\* that answers errors
C12_Witness ==
    /\ variant = "part_000"
    /\ InvalidJsonFailure("r1") /\ resp["r1"].status = 500
    /\ LLMCallFailure("r2") /\ resp["r2"].status = 500

\* what the program keeps for the request of slot r
SlotState(r) ==
    <<req[r], pc[r], resp[r], llmCalls[r], mailCalls[r], mockCalls[r],
      mailArgs[r], extResult[r], summary[r], logged[r]>>

\* two answered requests with the same route and body, whose external
\* calls, if any, ended the same way, got the same response
SameInputsSameResponse ==
    \A r1, r2 \in Slots :
        (pc[r1] = "done" /\ pc[r2] = "done"
         /\ req[r1] = req[r2] /\ extResult[r1] = extResult[r2])
        => resp[r1] = resp[r2]

\* C13: no step of a handler writes the mock flag or the LLM client (nor
\* changes the copy that runs), a step of one request changes nothing
\* that is kept for another request, and the response to a request is
\* determined by its own body, the startup configuration and the outcome
\* of its own external call.
C13_RequestIsolation ==
    [][/\ UNCHANGED <<variant, mockEnv, USE_MOCK, groq>>
       /\ \E r \in Slots :
              \A s \in Slots \ {r} : SlotState(s)' = SlotState(s)
       /\ SameInputsSameResponse']_vars

\* a request was answered from the LLM service while a /send-summary
\* request, arrived before the answer, still waits for its mail
C13_Witness ==
    /\ IsGenerate("r1") /\ extResult["r1"].kind = "ok"
    /\ resp["r1"].status = 200
    /\ IsSend("r2") /\ pc["r2"] = "awaitMail"

\* the points as the claim expects them back: each string trimmed, the
\* blank ones removed
RECURSIVE TrimmedNonBlank(_)
TrimmedNonBlank(q) ==
    IF q = <<>> THEN <<>>
    ELSE LET h == IF Head(q).t = "str" THEN JStr(Trim(Head(q).s)) ELSE Head(q)
         IN  (IF h = JStr(<<>>) THEN <<>> ELSE <<h>>)
             \o TrimmedNonBlank(Tail(q))

\* the change event fired with the text the textarea was rendered with
RoundTrip ==
    page.event = "changePoints" /\ page.typed = toLines(page.before)

\* every point is a string with no newline in it
SingleLineStrings(q) ==
    \A i \in 1..Len(q) :
        q[i].t = "str" /\ \A j \in 1..Len(q[i].s) : q[i].s[j] # "\n"

\* C14 as stated: for every normalized points sequence, joining the points
\* with newlines and splitting the text again, as the textarea does, gives
\* the original points, each trimmed and the blank ones removed, in the
\* same number and order.
C14_PointsRoundTrip ==
    RoundTrip => page.points = JArr(TrimmedNonBlank(page.before.a))

\* C14 amended: for every points sequence whose elements are strings that
\* hold no newline, joining the points with newlines and splitting the
\* text again gives the original points, each trimmed and the blank ones
\* removed, in the same number and order.
C14_SingleLineRoundTrip ==
    (RoundTrip /\ SingleLineStrings(page.before.a))
    => page.points = JArr(TrimmedNonBlank(page.before.a))

\* six single-line points, one untrimmed, two blank, two equal, went
\* through the round trip and four came back
C14_Witness ==
    /\ RoundTrip /\ SingleLineStrings(page.before.a)
    /\ Len(page.before.a) = 6
    /\ page.before.a[1] = JStr(<<" ", "a", "\t">>)
    /\ Len(page.points.a) = 4

\* the configured values the claim says turn the mock mode on
OnValues == {W("true"), W("TRUE"), W("True"), W("1"), W("yes"), W("YES")}

\* C15: the mock flag is on when USE_MOCK is configured as "true", "1" or
\* "yes" in any letter case and off for every other non-empty configured
\* value, at startup and at every later moment.
C15_MockToggle ==
    /\ mockEnv \in OnValues => USE_MOCK
    /\ (mockEnv \notin OnValues /\ NonEmptyString(mockEnv)) => ~USE_MOCK

\* the normalizer of spec 4.1: a field that is a sequence, or the empty
\* sequence
RefSeq(v) == IF v.t = "arr" THEN v ELSE JArr(<<>>)

\* the normalizer of spec 4.1: the record made of an element of
\* action_items
RefItem(e) ==
    JObj([owner |-> IF Truthy(Prop(e, "owner")) THEN Prop(e, "owner")
                    ELSE W("Unassigned"),
          task  |-> IF Truthy(Prop(e, "task")) THEN Prop(e, "task")
                    ELSE JStr(<<>>),
          due   |-> IF Truthy(Prop(e, "due")) THEN Prop(e, "due")
                    ELSE JStr(<<>>)])

RefShape(obj) ==
    JObj([points |-> RefSeq(Prop(obj, "points")),
          decisions |-> RefSeq(Prop(obj, "decisions")),
          action_items |->
              LET items == RefSeq(Prop(obj, "action_items")).a
              IN  JArr([i \in 1..Len(items) |-> RefItem(items[i])])])

\* C16: for every input the normalizer returns points and decisions
\* unchanged when they are sequences and empty otherwise, and action_items
\* mapped element by element, in order, to {owner: element.owner or
\* "Unassigned", task: element.task or "", due: element.due or ""}, or
\* empty when it is not a sequence.
C16_NormalizerIsReference ==
    \A r \in Slots :
        IsSend(r)
        => summary[r] = RefShape(OrElse(Field(r, "summary"), JObj(<<>>)))

\* the points of the response to the request of slot r
PointsOf(r) == resp[r].body.summary.o.points.a

\* the request of slot r was answered by the mock summarizer
MockAnswered(r) == IsGenerate(r) /\ mockCalls[r] = 1 /\ resp[r].status = 200

\* a string that is not empty and has no whitespace at either end
IsTrimmedNonEmpty(p) ==
    /\ p.t = "str" /\ p.s # <<>>
    /\ ~IsWs(p.s[1]) /\ ~IsWs(p.s[Len(p.s)])

\* C17 as stated: in mock mode the points are the first 6 fragments of the
\* transcript, in order, the fragments being the trimmed non-empty pieces
\* between newlines and sentence ends followed by whitespace; there are
\* never more than 6 points and none is empty or untrimmed.
C17_FirstSixFragments ==
    \A r \in Slots :
        MockAnswered(r)
        => /\ PointsOf(r) = MapSeq(JStr, Slice0(Lines(Field(r, "transcript")), 6))
           /\ Len(PointsOf(r)) <= 6
           /\ \A i \in 1..Len(PointsOf(r)) : IsTrimmedNonEmpty(PointsOf(r)[i])

\* the number of points the mock summarizer of each copy keeps
MockLimit ==
    CASE variant \in {"part_000", "server.js"} -> 6
      [] variant = "part_001" -> 4
      [] variant = "part_002" -> 8

\* C17 amended: in mock mode the points are the first N fragments of the
\* transcript, in order, with N = 6 in part_000 and server.js, N = 4 in
\* part_001 and N = 8 in part_002; part_002 leaves out the fragments that
\* are just "...", and part_001 answers its four placeholder points when
\* the transcript has no fragment.  There are never more than N points and
\* none is empty or untrimmed.
C17_FirstFragments ==
    \A r \in Slots :
        MockAnswered(r)
        => LET fragments == Lines(Field(r, "transcript"))
               kept == IF variant = "part_002"
                       THEN SelectSeq(fragments, LAMBDA l : l # <<".", ".", ".">>)
                       ELSE fragments
           IN  /\ PointsOf(r) =
                      IF variant = "part_001" /\ fragments = <<>>
                      THEN PlaceholderPoints
                      ELSE MapSeq(JStr, Slice0(kept, MockLimit))
               /\ Len(PointsOf(r)) <= MockLimit
               /\ \A i \in 1..Len(PointsOf(r)) :
                      IsTrimmedNonEmpty(PointsOf(r)[i])

\* part_000 answered a transcript of more than six sentences with its
\* first six
C17_Witness ==
    \E r \in Slots :
        /\ MockAnswered(r)
        /\ variant = "part_000"
        /\ Len(Lines(Field(r, "transcript"))) > 6
        /\ Len(PointsOf(r)) = 6

DecisionsHeader == "<h4>Decisions</h4><ul>"
ActionsHeader   == "<h4>Action Items</h4><ul>"

Has(h, tok) == \E i \in 1..Len(h) : h[i] = tok

\* the part of h before the first tok, all of h when tok is not in it
Before(h, tok) ==
    IF Has(h, tok)
    THEN SubSeq(h, 1, (CHOOSE i \in 1..Len(h) :
                          h[i] = tok /\ \A j \in 1..(i - 1) : h[j] # tok) - 1)
    ELSE h

\* the part of h after the first tok, nothing when tok is not in it
After(h, tok) ==
    IF Has(h, tok)
    THEN SubSeq(h, (CHOOSE i \in 1..Len(h) :
                       h[i] = tok /\ \A j \in 1..(i - 1) : h[j] # tok) + 1,
                Len(h))
    ELSE <<>>

RECURSIVE PiecesFrom(_, _, _, _, _, _, _)
PiecesFrom(h, i, open, close, cur, inside, acc) ==
    IF i > Len(h) THEN acc
    ELSE IF ~inside
    THEN PiecesFrom(h, i + 1, open, close, <<>>, h[i] = open, acc)
    ELSE IF h[i] = close
    THEN PiecesFrom(h, i + 1, open, close, <<>>, FALSE, Append(acc, cur))
    ELSE PiecesFrom(h, i + 1, open, close, Append(cur, h[i]), TRUE, acc)

\* the texts h holds between an open and the next close, in order
Pieces(h, open, close) == PiecesFrom(h, 1, open, close, <<>>, FALSE, <<>>)

MailFailure(r) == IsSend(r) /\ mailCalls[r] = 1 /\ extResult[r].kind = "error"

\* C19: when sendEmailHTML fails for a /send-summary request with
\* non-empty recipients, also by failing on recipients that are not a
\* sequence, the response is 500 with a JSON body holding only an error
\* message and no previewUrl, and a request arriving afterwards is still
\* taken and handled.
C19_MailFailureAnswered ==
    \A r \in Slots :
        MailFailure(r)
        => /\ HasRecipients(Field(r, "recipients"))
           /\ pc[r] = "done"
           /\ resp[r].status = 500
           /\ DOMAIN resp[r].body = {"error"}
           /\ resp[r].body.error \in {ErrSendSummary, ErrSendEmail}
           /\ \A s \in Slots \ {r} :
                  pc[s] = "idle"
                  => /\ ENABLED (\E body \in GenerateBodies : GenerateSummary(s, body))
                     /\ ENABLED (\E body \in SendBodies : SendSummary(s, body))

\* recipients given as a string made sendEmailHTML fail on join, the
\* request got its 500, and the other request was answered 200 with a
\* preview URL
C19_Witness ==
    /\ MailFailure("r1") /\ extResult["r1"].error = JoinError
    /\ Field("r1", "recipients") = W("a@example.com")
    /\ resp["r1"].status = 500
    /\ IsSend("r2") /\ extResult["r2"].kind = "ok" /\ resp["r2"].status = 200

\* an external call of the request of slot r is outstanding
Outstanding(r) ==
    llmCalls[r] + mailCalls[r] - (IF extResult[r].kind = "none" THEN 0 ELSE 1)

\* C20: a request that called the LLM service or sendEmailHTML gets no
\* response before that call has completed or failed, and a request never
\* has more than one external call outstanding.
C20_AwaitsExternalCall ==
    \A r \in Slots :
        /\ (llmCalls[r] + mailCalls[r] > 0 /\ extResult[r].kind = "none")
           => (resp[r] = NoResp /\ pc[r] \in {"awaitLLM", "awaitMail"})
        /\ pc[r] = "awaitLLM" => (llmCalls[r] = 1 /\ extResult[r].kind = "none")
        /\ pc[r] = "awaitMail" => (mailCalls[r] = 1 /\ extResult[r].kind = "none")
        /\ Outstanding(r) \in {0, 1}

\* one request waits for the LLM service and has no response yet, the
\* other got its response after its mail was sent
C20_Witness ==
    /\ pc["r1"] = "awaitLLM" /\ llmCalls["r1"] = 1 /\ resp["r1"] = NoResp
    /\ IsSend("r2") /\ mailCalls["r2"] = 1 /\ extResult["r2"].kind = "ok"
    /\ resp["r2"].status = 200

\* what a text holds between its opening fence, with the json tag when
\* there is one, and its closing fence
Inside(t) ==
    LET body == SubSeq(t, 2, Len(t) - 1)
    IN  Trim(IF body # <<>> /\ body[1] = "json" THEN Tail(body) ELSE body)

\* the content is a JSON document between an opening fence, tagged json or
\* not, and a closing fence
WrapsDocument(content) ==
    /\ content.t = "str" /\ Len(content.s) >= 3
    /\ content.s[1] = "FENCE" /\ content.s[Len(content.s)] = "FENCE"
    /\ Len(Inside(content.s)) = 1
    /\ Inside(content.s)[1] \in DocTokens

\* C21: when the LLM service returns a JSON document between an opening
\* fence, with or without the json tag, and a closing fence, the request
\* is answered 200 with the normalization of that document, as if the
\* document had been returned without the fences.
C21_FencesStripped ==
    \A r \in Slots :
        (IsGenerate(r) /\ extResult[r].kind = "ok"
         /\ WrapsDocument(extResult[r].value))
        => /\ resp[r].status = 200
           /\ resp[r].body =
                  [summary |->
                       ensureSummaryShape(DocOf(Inside(extResult[r].value.s)[1]))]

C23_StaleSendIgnored ==
    ~page.freshDone
    => page.emailStatus = "" /\ page.previewUrl = JStr(<<>>)

====
